---- MODULE Spec2Model ----
(***************************************************************************)
(* MongoCsvSeeder: resumable CSV -> MongoDB batch ingestion (src/main.go).  *)
(*                                                                         *)
(* One process run is main() calling processCSV(); the progress file and   *)
(* the MongoDB collection outlive the process, so a behaviour is a         *)
(* sequence of runs over the same input file.  The main goroutine and the  *)
(* interrupt goroutine started by main() are interleaved step by step.     *)
(***************************************************************************)
EXTENDS Integers, Sequences, FiniteSets, TLC

(* ---------------- bounds of the model ---------------- *)
\* longest input, in data rows after the header
MaxRows == 4
\* process runs in one behaviour
MaxRuns == 2
\* bulk inserts that fail for a reason other than a duplicate key
MaxInsertFaults == 1
\* os.WriteFile calls on the progress file that fail
MaxWriteFaults == 1
\* SIGINT/SIGTERM deliveries
MaxSignals == 1
\* batchSize := 1000 in processCSV, scaled down so that a batch fills
batchSize == 2
\* longest input of the programs that filter rows, in data rows
MaxFilteredRows == 3
\* longest list written into the types column
MaxItems == 3

(* ---------------- strings ---------------- *)
\* A string is a tuple of one-character strings.
IsSpace(c) == c \in {" ", "\t", "\n", "\r"}

RECURSIVE TrimLeft(_)
TrimLeft(s) ==
  IF s = <<>> THEN <<>>
  ELSE IF IsSpace(Head(s)) THEN TrimLeft(Tail(s)) ELSE s

RECURSIVE TrimRight(_)
TrimRight(s) ==
  IF s = <<>> THEN <<>>
  ELSE IF IsSpace(s[Len(s)]) THEN TrimRight(SubSeq(s, 1, Len(s) - 1)) ELSE s

\* strings.TrimSpace
TrimSpace(s) == TrimRight(TrimLeft(s))

\* strings.Trim(s, cutset): leading and trailing characters of cutset removed
RECURSIVE TrimLeftSet(_, _)
TrimLeftSet(s, cutset) ==
  IF s = <<>> THEN <<>>
  ELSE IF Head(s) \in cutset THEN TrimLeftSet(Tail(s), cutset) ELSE s

RECURSIVE TrimRightSet(_, _)
TrimRightSet(s, cutset) ==
  IF s = <<>> THEN <<>>
  ELSE IF s[Len(s)] \in cutset THEN TrimRightSet(SubSeq(s, 1, Len(s) - 1), cutset)
       ELSE s

Trim(s, cutset) == TrimRightSet(TrimLeftSet(s, cutset), cutset)

\* strings.Split(s, sep) for a one-character sep: the pieces between the
\* separators, so n separators give n + 1 pieces and "" gives one empty piece.
RECURSIVE Split(_, _)
Split(s, sep) ==
  LET at == {i \in 1..Len(s) : s[i] = sep}
  IN IF at = {} THEN <<s>>
     ELSE LET i == CHOOSE j \in at : \A k \in at : j <= k
          IN <<SubSeq(s, 1, i - 1)>> \o Split(SubSeq(s, i + 1, Len(s)), sep)

(* ---------------- inputs ---------------- *)
\* values of column 0 (the place id) of a data row
Keys == {<<"a">>, <<"b">>, <<" ", "a">>, <<>>}
\* content of a progress file left behind by a run over another input
StaleKey == <<"z">>

\* record[0] of the header record
HeaderKey == <<"h">>

\* A row that csv.Reader.Read fails on (wrong field count, bare quote, I/O error).
BadRow == [bad |-> TRUE, key |-> <<>>, pass |-> TRUE]

\* A data row: csv.Reader.Read either returns it (record[0] = key) or fails
\* on it.  pass: record[4] = "Bangladesh"; main.go does not look at
\* record[4], so its rows are taken with pass = TRUE.
Rows == [bad : {FALSE}, key : Keys, pass : {TRUE}] \cup {BadRow}

\* The data rows of the programs that test record[4].
FilteredRows == [bad : {FALSE}, key : Keys, pass : BOOLEAN] \cup {BadRow}

\* The files of at most max data rows.  No run reads past a row that cannot
\* be read, so such a row is taken to be the last one of the file.
FilesOf(rows, max) ==
  {f \in UNION {[1..n -> rows] : n \in 0..max} :
     \A i \in 1..Len(f) : f[i].bad => i = Len(f)}

Inputs == FilesOf(Rows, MaxRows)

NoFile == [exists |-> FALSE, data |-> <<>>]
FileWith(s) == [exists |-> TRUE, data |-> s]

VARIABLES
  csvFile,         \* CSV_FILE of the process that derives a progress path
  progressPath,    \* the package variable progressFile: the path of the file
  disk,            \* the progress files there are: path -> [exists, by]
  got,             \* what the process found at its progress path
  step,            \* position of that process
  list,            \* the items written into a types column
  column,          \* record[1], the types column as text
  types,           \* Place.Types: [done, val]
  variant,         \* the program: "main" (main.go) or "filtered" (the two others)
  header,          \* the input file has a first (header) record
  hdr,             \* the header record: [key, pass]
  csv,             \* the data rows of the input file, in file order
  uniqueIndex,     \* the collection has a unique index on placeId
  progressFile,    \* the progress file: [exists, data]
  collection,      \* documents in the MongoDB collection, in insertion order
  run,             \* number of the current process run
  pc,              \* position of the main goroutine
  mon,             \* position of the interrupt goroutine of main()
  monChan,         \* signals buffered in the interrupt goroutine's channel
  sigChan,         \* signals buffered in processCSV's own channel, -1 before it is registered
  eof,             \* position of the goroutine that prints the EOF message
  idx,             \* data rows the csv reader has consumed, -1 before the header
  progress,        \* progressBar.Increment() calls
  lastProcessedID, \* processCSV local
  startProcessing, \* processCSV local
  batch,           \* processCSV local
  exitCode,        \* exit status of the run (-1 while it is running)
  cause,           \* what ended the run
  log,             \* messages the run has printed
  insertFaults, writeFaults, signals,  \* faults injected so far
  calls,           \* batches whose InsertMany returned success in this run
  hist             \* what earlier moments left behind (for the properties)

pathVars == <<csvFile, progressPath, disk, got, step>>
parseVars == <<list, column, types>>
pure == <<pathVars, parseVars>>

pipeline == <<variant, header, hdr, csv, uniqueIndex, progressFile, collection,
              run, pc, mon, monChan, sigChan, eof, idx, progress, lastProcessedID,
              startProcessing, batch, exitCode, cause, log, insertFaults,
              writeFaults, signals, calls, hist>>

vars == <<pipeline, pure>>

input == <<variant, header, hdr, csv, uniqueIndex>>
locals == <<idx, progress, lastProcessedID, startProcessing, batch>>
budget == <<insertFaults, writeFaults, signals>>

\* Record i of the file: the header is record 0, data row i is record i.
Record(i) ==
  IF i = 0 THEN [bad |-> FALSE, key |-> hdr.key, pass |-> hdr.pass] ELSE csv[i]

\* The entity built from record i (lines 142-164); row is its file position.
Place(i) == [PlaceID |-> Record(i).key, row |-> i]

FreshHist == [start |-> NoFile,       \* progress file when the run started
              fresh |-> TRUE,         \* the first run found no progress file
              failed |-> <<>>,        \* batch whose InsertMany failed in this run
              failKind |-> "none",    \* "dup": duplicate key, "fault": anything else
              prevFailed |-> <<>>,    \* failed, of the previous run
              prevKind |-> "none",    \* failKind, of the previous run
              prevCause |-> "none",   \* what ended the previous run
              writeFailed |-> FALSE,  \* a progress-file write failed in this run
              lastWrite |-> "none",   \* result of this run's latest write
              signalled |-> FALSE,    \* a signal arrived while processCSV ran
              loaded |-> FALSE,       \* getLastProcessedPlaceID has returned a value
              hdrCompared |-> FALSE,  \* the header's key was compared with the checkpoint
              completed |-> FALSE]    \* some run returned nil from processCSV

(* ---------------- the progress file's path ---------------- *)
\* var progressFile = "_progress.txt" (one token of the path)
DefaultProgressFile == <<"_progress.txt">>

\* values of CSV_FILE
FileNames ==
  {<<"a", ".", "c">>, <<"a", ".", "t">>, <<"b", ".", "c">>,
   <<".", "/", "a", ".", "c">>, <<".", "/", "b", ".", "c">>, <<"a">>}

\* main(), line 250: strings.Split(csvFile, ".")[0] + progressFile
ProgressPathOf(name, suffix) == Split(name, ".")[1] \o suffix

Paths == {ProgressPathOf(n, DefaultProgressFile) : n \in FileNames}

NoEntry == [exists |-> FALSE, by |-> {}]

\* No process has derived a path.
PathIdle ==
  /\ csvFile = <<>>
  /\ progressPath = DefaultProgressFile
  /\ disk = [p \in Paths |-> NoEntry]
  /\ got = NoEntry
  /\ step = "idle"

\* A process is started with CSV_FILE = n (lines 233-236).
StartProcess ==
  /\ step \in {"idle", "read", "write", "done"}
  /\ csvFile' \in FileNames
  /\ progressPath' = DefaultProgressFile
  /\ got' = NoEntry
  /\ step' = "config"
  /\ UNCHANGED <<disk, pipeline, parseVars>>

\* main(), line 250.
SetProgressPath ==
  /\ step = "config"
  /\ progressPath' = ProgressPathOf(csvFile, progressPath)
  /\ step' = "read"
  /\ UNCHANGED <<csvFile, disk, got, pipeline, parseVars>>

\* getLastProcessedPlaceID, line 208: os.ReadFile(progressFile)
ReadAtPath ==
  /\ step = "read"
  /\ got' = disk[progressPath]
  /\ step' = "write"
  /\ UNCHANGED <<csvFile, progressPath, disk, pipeline, parseVars>>

\* updateLastProcessedPlaceID, line 220: os.WriteFile(progressFile, ...)
WriteAtPath ==
  /\ step = "write"
  /\ disk' = [disk EXCEPT ![progressPath] =
                 [exists |-> TRUE, by |-> @.by \cup {csvFile}]]
  /\ step' = "done"
  /\ UNCHANGED <<csvFile, progressPath, got, pipeline, parseVars>>

(* ---------------- the types column ---------------- *)
Items == {<<"a">>, <<"b">>, <<"c">>, <<"a", "b">>}
Lists == UNION {[1..n -> Items] : n \in 0..MaxItems}

RECURSIVE JoinQuoted(_)
JoinQuoted(l) ==
  IF l = <<>> THEN <<>>
  ELSE <<"'">> \o Head(l) \o <<"'">> \o
       (IF Len(l) > 1 THEN <<",", " ">> \o JoinQuoted(Tail(l)) ELSE <<>>)

\* record[1] as the input files write a list: ['a', 'b', 'c'], and [] for none
ListColumn(l) == <<"[">> \o JoinQuoted(l) \o <<"]">>

\* parseArrayFromColumn, lines 49-62
parseArrayFromColumn(text) ==
  LET cleaned == Trim(text, {"[", "]"})
      items == Split(cleaned, ",")
  IN [i \in 1..Len(items) |-> TrimSpace(Trim(items[i], {"'"}))]

\* No column has been parsed.
ParseIdle ==
  /\ list = <<>>
  /\ column = <<>>
  /\ types = [done |-> FALSE, val |-> <<>>]

\* processCSV, line 147: Types: parseArrayFromColumn(record[1])
ParseTypes ==
  /\ ~types.done
  /\ types' = [done |-> TRUE, val |-> parseArrayFromColumn(column)]
  /\ UNCHANGED <<list, column, pipeline, pathVars>>

\* main() is entered: nothing has run yet.
Started ==
  /\ header \in BOOLEAN
  /\ (header = FALSE => csv = <<>>)
  /\ uniqueIndex \in BOOLEAN
  /\ run = 1
  /\ pc = "main"
  /\ mon = "none"
  /\ monChan = 0
  /\ sigChan = -1
  /\ eof = "none"
  /\ idx = -1
  /\ progress = 0
  /\ lastProcessedID = <<>>
  /\ startProcessing = FALSE
  /\ batch = <<>>
  /\ exitCode = -1
  /\ cause = "none"
  /\ log = {}
  /\ insertFaults = 0 /\ writeFaults = 0 /\ signals = 0
  /\ calls = <<>>
  /\ hist = [FreshHist EXCEPT !.start = progressFile,
                              !.fresh = ~progressFile.exists]
  /\ PathIdle
  /\ ParseIdle

\* The first run over an input: an empty collection, and no progress file or
\* one left behind by a run over another input.
Init ==
  /\ variant = "main"
  /\ hdr = [key |-> HeaderKey, pass |-> TRUE]
  /\ csv \in Inputs
  /\ progressFile \in {NoFile, FileWith(StaleKey)}
  /\ collection = <<>>
  /\ Started

\* One run, whatever the progress file holds when it starts.
InitRun ==
  /\ variant = "main"
  /\ hdr = [key |-> HeaderKey, pass |-> TRUE]
  /\ csv \in Inputs
  /\ progressFile \in {NoFile} \cup {FileWith(k) : k \in Keys \cup {StaleKey}}
  /\ collection = <<>>
  /\ Started

(* ---------------- process exit ---------------- *)
\* os.Exit(code) / return from main: every goroutine stops.
Exit(code, why, msgs) ==
  /\ pc' = "exited"
  /\ exitCode' = code
  /\ cause' = why
  /\ log' = log \cup msgs
  /\ mon' = "none"
  /\ monChan' = 0
  /\ sigChan' = -1
  /\ eof' = "none"

\* The exit status of log.Fatalf.
FatalExitCode == 1

\* log.Fatalf in main(): print and os.Exit(1)
Fatal(why) == Exit(FatalExitCode, why, {"fatal"})

(* ---------------- the store ---------------- *)
RECURSIVE KeysOf(_)
KeysOf(docs) ==
  IF docs = <<>> THEN {} ELSE {Head(docs).PlaceID} \cup KeysOf(Tail(docs))

\* Position of the first document of docs that a unique index rejects when
\* docs is inserted in order into coll, 0 when there is none.
FirstDup(coll, docs) ==
  LET dup == {i \in 1..Len(docs) :
                docs[i].PlaceID \in KeysOf(coll) \cup KeysOf(SubSeq(docs, 1, i - 1))}
  IN IF uniqueIndex /\ dup # {} THEN CHOOSE i \in dup : \A j \in dup : i <= j
     ELSE 0

\* How many leading documents of docs an ordered bulk insert can have written
\* when it stops early (connection lost, process killed).
Written(coll, docs) ==
  LET d == FirstDup(coll, docs)
  IN 0..(IF d = 0 THEN Len(docs) ELSE d - 1)

\* collection.InsertMany(ctx, docs), ordered: the possible results.
\* ok: every document written.  Otherwise an error is returned; a duplicate-key
\* error leaves the documents before the duplicate written, any other failure
\* leaves some prefix written.
InsertMany(coll, docs, mayFail) ==
  LET d == FirstDup(coll, docs)
  IN (IF d = 0
      THEN {[ok |-> TRUE, coll |-> coll \o docs, fault |-> FALSE]}
      ELSE {[ok |-> FALSE, coll |-> coll \o SubSeq(docs, 1, d - 1), fault |-> FALSE]})
     \cup
     (IF mayFail
      THEN {[ok |-> FALSE, coll |-> coll \o SubSeq(docs, 1, n), fault |-> TRUE] :
              n \in Written(coll, docs)}
      ELSE {})

\* The collection after the process dies at position p.
AfterKill(p) ==
  IF p \in {"inserting", "finalInserting"}
  THEN {collection \o SubSeq(batch, 1, n) : n \in Written(collection, batch)}
  ELSE {collection}

(* ---------------- progress file ---------------- *)
\* getLastProcessedPlaceID: the value returned when ReadFile succeeds or the
\* file does not exist.
getLastProcessedPlaceID(f) == IF f.exists THEN TrimSpace(f.data) ELSE <<>>

\* updateLastProcessedPlaceID(placeID): os.WriteFile truncates, then writes.
\* When it fails the file is as it was, or was truncated and not written.
updateLastProcessedPlaceID(f, placeID, fails) ==
  IF fails THEN {f, FileWith(<<>>)} ELSE {FileWith(placeID)}

\* LogWriteError that treats the failed write as fatal.
LogWriteErrorFatal(next) == Fatal("progress")

\* updateLastProcessedPlaceID, lines 221-223: the error is printed, the caller
\* goes on at next.
LogWriteError(next) ==
  /\ pc' = next
  /\ log' = log \cup {"progressError"}
  /\ UNCHANGED <<exitCode, cause, mon, monChan, sigChan, eof>>

\* The step after updateLastProcessedPlaceID has returned.
AfterWrite(fails, next) ==
  IF fails THEN LogWriteError(next)
  ELSE /\ pc' = next
       /\ UNCHANGED <<log, exitCode, cause, mon, monChan, sigChan, eof>>

(* ---------------- main goroutine ---------------- *)
\* main(), lines 228-250: .env and the four environment variables.
LoadConfig ==
  /\ pc = "main"
  /\ \/ /\ pc' = "spawn"
        /\ UNCHANGED <<exitCode, cause, log, mon, monChan, sigChan, eof>>
     \/ Fatal("config")
  /\ UNCHANGED <<input, pure, progressFile, collection, run, locals, budget, calls, hist>>

\* main(), line 253: go func() { ... }()
SpawnMonitor ==
  /\ pc = "spawn"
  /\ pc' = "connect"
  /\ mon' = "created"
  /\ UNCHANGED <<input, pure, progressFile, collection, run, monChan, sigChan, eof,
                 locals, exitCode, cause, log, budget, calls, hist>>

\* processCSV, lines 67-83: connect to MongoDB and open the csv file.
ConnectAndOpen ==
  /\ pc = "connect"
  /\ \/ /\ pc' = "getLast"
        /\ UNCHANGED <<exitCode, cause, log, mon, monChan, sigChan, eof>>
     \/ Fatal("open")
  /\ UNCHANGED <<input, pure, progressFile, collection, run, locals, budget, calls, hist>>

\* processCSV, lines 86-98.
ReadProgress ==
  /\ pc = "getLast"
  /\ \/ /\ lastProcessedID' = getLastProcessedPlaceID(progressFile)
        /\ startProcessing' = (getLastProcessedPlaceID(progressFile) = <<>>)
        /\ pc' = "notify"
        /\ hist' = [hist EXCEPT !.loaded = TRUE]
        /\ UNCHANGED <<exitCode, cause, log, mon, monChan, sigChan, eof>>
     \/ /\ progressFile.exists        \* ReadFile fails, not with IsNotExist
        /\ Fatal("readProgress")
        /\ UNCHANGED <<lastProcessedID, startProcessing, hist>>
  /\ UNCHANGED <<input, pure, progressFile, collection, run, idx, progress, batch,
                 budget, calls>>

\* processCSV, lines 101-102: a second registration, on a channel nobody reads.
NotifyInPipeline ==
  /\ pc = "notify"
  /\ pc' = IF variant = "main" THEN "header" ELSE "read"
  /\ sigChan' = 0
  /\ UNCHANGED <<input, pure, progressFile, collection, run, mon, monChan, eof,
                 locals, exitCode, cause, log, budget, calls, hist>>

\* processCSV, lines 105-110: the header record is read and printed.  The
\* programs of the other source file have no such statement.
ReadHeader ==
  /\ pc = "header"
  /\ IF header
     THEN /\ pc' = "read"
          /\ idx' = 0
          /\ log' = log \cup {"header"}
          /\ UNCHANGED <<exitCode, cause, mon, monChan, sigChan, eof>>
     ELSE /\ Fatal("header")
          /\ UNCHANGED idx
  /\ UNCHANGED <<input, pure, progressFile, collection, run, progress,
                 lastProcessedID, startProcessing, batch, budget, calls, hist>>

\* AfterAppend with the threshold test of line 168 off by one.
AfterAppendLate(b) == IF Len(b) > batchSize THEN "inserting" ELSE "read"

\* OnReadError that skips the row it cannot read and goes on with the next.
OnReadErrorSkip ==
  /\ idx' = idx + 1
  /\ UNCHANGED <<pc, progress, lastProcessedID, startProcessing, batch, exitCode,
                 cause, log, mon, monChan, sigChan, eof>>

\* processCSV, lines 114-124, err other than EOF: return err, which main()
\* hands to log.Fatalf.
OnReadError ==
  /\ Fatal("read")
  /\ UNCHANGED locals

\* Where the loop body goes after appending to the batch (line 168).
AfterAppend(b) == IF Len(b) >= batchSize THEN "inserting" ELSE "read"

\* The reader has no further record.
AtEOF == IF header THEN idx = Len(csv) ELSE TRUE

\* The test of the programs that skip the rows of other countries
\* (record[4] != "Bangladesh"); main.go has it commented out (lines 136-140).
Included(i) == variant = "main" \/ Record(i).pass

\* processCSV, lines 113-168: one iteration of the loop up to the bulk insert.
ReadRecord ==
  /\ pc = "read"
  /\ IF AtEOF
     THEN \* io.EOF: start the message goroutine, break, then line 184
          /\ pc' = IF Len(batch) > 0 THEN "finalInserting" ELSE "finish"
          /\ eof' = "sleeping"
          /\ UNCHANGED <<locals, exitCode, cause, log, mon, monChan, sigChan, hist>>
     ELSE IF Record(idx + 1).bad
     THEN OnReadError /\ UNCHANGED hist
     ELSE /\ idx' = idx + 1
          /\ UNCHANGED <<lastProcessedID, exitCode, cause, log, mon, monChan, sigChan, eof>>
          /\ hist' = [hist EXCEPT !.hdrCompared = @ \/ (idx + 1 = 0 /\ ~startProcessing)]
          /\ IF ~startProcessing /\ Record(idx + 1).key = lastProcessedID
             THEN /\ startProcessing' = TRUE
                  /\ UNCHANGED <<batch, pc, progress>>
             ELSE IF ~startProcessing
             THEN UNCHANGED <<startProcessing, batch, pc, progress>>
             ELSE IF ~Included(idx + 1)
             THEN /\ progress' = progress + 1
                  /\ UNCHANGED <<startProcessing, batch, pc>>
             ELSE /\ batch' = Append(batch, Place(idx + 1))
                  /\ pc' = AfterAppend(batch')
                  /\ progress' = IF pc' = "read" THEN progress + 1 ELSE progress
                  /\ UNCHANGED startProcessing
  /\ UNCHANGED <<input, pure, progressFile, collection, run, budget, calls>>

\* Cleared that leaves the batch as it is.
Kept(b) == b

\* What line 173 leaves in the batch after a successful threshold insert.
Cleared(b) == <<>>

\* processCSV, lines 169-173: the threshold bulk insert returns.
FlushReturns ==
  /\ pc = "inserting"
  /\ \E r \in InsertMany(collection, batch, insertFaults < MaxInsertFaults) :
       /\ collection' = r.coll
       /\ insertFaults' = insertFaults + (IF r.fault THEN 1 ELSE 0)
       /\ IF r.ok
          THEN /\ calls' = Append(calls, batch)
               /\ batch' = Cleared(batch)
               /\ pc' = "update"
               /\ UNCHANGED <<exitCode, cause, log, mon, monChan, sigChan, eof, hist>>
          ELSE /\ Fatal("insert")
               /\ hist' = [hist EXCEPT !.failed = batch,
                                       !.failKind = IF r.fault THEN "fault" ELSE "dup"]
               /\ UNCHANGED <<calls, batch>>
  /\ UNCHANGED <<input, pure, progressFile, run, idx, progress, lastProcessedID,
                 startProcessing, writeFaults, signals>>

\* FlushKey that takes the first entity of the batch just inserted.
FlushKeyFirst == calls[Len(calls)][1].PlaceID

\* The key line 176 passes to updateLastProcessedPlaceID: place.PlaceID, the
\* row just appended, which is the last entity of the batch just inserted.
FlushKey == Place(idx).PlaceID

\* processCSV, line 176 (and 180).
UpdateAfterFlush ==
  /\ pc = "update"
  /\ \E fails \in {FALSE} \cup (IF writeFaults < MaxWriteFaults THEN {TRUE} ELSE {}) :
       /\ progressFile' \in updateLastProcessedPlaceID(progressFile, FlushKey, fails)
       /\ writeFaults' = writeFaults + (IF fails THEN 1 ELSE 0)
       /\ hist' = [hist EXCEPT !.writeFailed = @ \/ fails,
                               !.lastWrite = IF fails THEN "failed" ELSE "ok"]
       /\ AfterWrite(fails, "read")
  /\ progress' = progress + 1
  /\ UNCHANGED <<input, pure, collection, run, idx, lastProcessedID, startProcessing,
                 batch, insertFaults, signals, calls>>

\* processCSV, lines 184-188: the bulk insert of the remaining batch returns.
FinalInsertReturns ==
  /\ pc = "finalInserting"
  /\ \E r \in InsertMany(collection, batch, insertFaults < MaxInsertFaults) :
       /\ collection' = r.coll
       /\ insertFaults' = insertFaults + (IF r.fault THEN 1 ELSE 0)
       /\ IF r.ok
          THEN /\ calls' = Append(calls, batch)
               /\ pc' = "finalUpdate"
               /\ UNCHANGED <<exitCode, cause, log, mon, monChan, sigChan, eof, hist>>
          ELSE /\ Fatal("insert")
               /\ hist' = [hist EXCEPT !.failed = batch,
                                       !.failKind = IF r.fault THEN "fault" ELSE "dup"]
               /\ UNCHANGED calls
  /\ UNCHANGED <<input, pure, progressFile, run, locals, writeFaults, signals>>

\* The key line 190 passes: batch[len(batch)-1].(Place).PlaceID
FinalKey == batch[Len(batch)].PlaceID

\* processCSV, line 190.
UpdateAfterFinal ==
  /\ pc = "finalUpdate"
  /\ \E fails \in {FALSE} \cup (IF writeFaults < MaxWriteFaults THEN {TRUE} ELSE {}) :
       /\ progressFile' \in updateLastProcessedPlaceID(progressFile, FinalKey, fails)
       /\ writeFaults' = writeFaults + (IF fails THEN 1 ELSE 0)
       /\ hist' = [hist EXCEPT !.writeFailed = @ \/ fails,
                               !.lastWrite = IF fails THEN "failed" ELSE "ok"]
       /\ AfterWrite(fails, "finish")
  /\ UNCHANGED <<input, pure, collection, run, locals, insertFaults, signals, calls>>

\* processCSV, lines 193-194, and main(), lines 262-267: return nil, print
\* the completion message, return from main.
Finish ==
  /\ pc = "finish"
  /\ Exit(0, "done", {"success"})
  /\ hist' = [hist EXCEPT !.completed = TRUE]
  /\ UNCHANGED <<input, pure, progressFile, collection, run, locals, budget, calls>>

(* ---------------- interrupt goroutine, main() lines 253-259 ---------------- *)
\* lines 254-255: make the channel and register it.
MonitorNotify ==
  /\ mon = "created"
  /\ pc # "exited"
  /\ mon' = "waiting"
  /\ UNCHANGED <<input, pure, progressFile, collection, run, pc, monChan, sigChan,
                 eof, locals, exitCode, cause, log, budget, calls, hist>>

\* The exit status of lines 256-258.
InterruptExitCode == 1

\* InterruptKeeps that saves the key of the last buffered entity before exiting.
InterruptSaves ==
  /\ progressFile' = IF batch # <<>> THEN FileWith(batch[Len(batch)].PlaceID)
                     ELSE progressFile
  /\ UNCHANGED locals

\* What the goroutine of lines 253-259 does with the state of processCSV:
\* it names none of it.
InterruptKeeps == UNCHANGED <<progressFile, locals>>

\* lines 256-258: receive, print, os.Exit(1), wherever main is.
MonitorExit ==
  /\ mon = "waiting"
  /\ monChan > 0
  /\ pc # "exited"
  /\ collection' \in AfterKill(pc)
  /\ Exit(InterruptExitCode, "interrupt", {"interrupt"})
  /\ InterruptKeeps
  /\ UNCHANGED <<input, pure, run, budget, calls, hist>>

(* ---------------- EOF message goroutine, processCSV lines 117-120 ---------------- *)
\* time.Sleep(10ms), then fmt.Printf: it happens when the process still lives.
EofPrint ==
  /\ eof = "sleeping"
  /\ pc # "exited"
  /\ eof' = "printed"
  /\ log' = log \cup {"eof"}
  /\ UNCHANGED <<input, pure, progressFile, collection, run, pc, mon, monChan,
                 sigChan, locals, exitCode, cause, budget, calls, hist>>

(* ---------------- environment ---------------- *)
\* The positions of main inside its call of processCSV (line 261).
InPipeline(p) == p \notin {"main", "spawn", "exited"}

\* A SIGINT or SIGTERM reaches the process.  os/signal sends it, without
\* blocking, to every channel registered for it; with no channel registered
\* the Go runtime's default applies and the signal kills the process.
Signal ==
  /\ pc # "exited"
  /\ signals < MaxSignals
  /\ signals' = signals + 1
  /\ hist' = [hist EXCEPT !.signalled = InPipeline(pc)]
  /\ IF mon # "waiting" /\ sigChan = -1
     THEN /\ collection' \in AfterKill(pc)
          /\ Exit(130, "killed", {})
     ELSE /\ monChan' = IF mon = "waiting" THEN 1 ELSE monChan
          /\ sigChan' = IF sigChan = -1 THEN sigChan ELSE 1
          /\ UNCHANGED <<collection, pc, exitCode, cause, log, mon, eof>>
  /\ UNCHANGED <<input, pure, progressFile, run, locals, insertFaults, writeFaults, calls>>

\* The operator runs the program again on the same input.
Rerun ==
  /\ pc = "exited"
  /\ run < MaxRuns
  /\ run' = run + 1
  /\ pc' = "main"
  /\ idx' = -1
  /\ progress' = 0
  /\ lastProcessedID' = <<>>
  /\ startProcessing' = FALSE
  /\ batch' = <<>>
  /\ exitCode' = -1
  /\ cause' = "none"
  /\ log' = {}
  /\ calls' = <<>>
  /\ hist' = [hist EXCEPT !.start = progressFile,
                          !.failed = <<>>,
                          !.failKind = "none",
                          !.prevFailed = hist.failed,
                          !.prevKind = hist.failKind,
                          !.prevCause = cause,
                          !.writeFailed = FALSE,
                          !.lastWrite = "none",
                          !.signalled = FALSE,
                          !.loaded = FALSE,
                          !.hdrCompared = FALSE]
  /\ UNCHANGED <<input, pure, progressFile, collection, mon, monChan, sigChan, eof,
                 budget>>

Next ==
  \/ LoadConfig
  \/ SpawnMonitor
  \/ ConnectAndOpen
  \/ ReadProgress
  \/ NotifyInPipeline
  \/ ReadHeader
  \/ ReadRecord
  \/ FlushReturns
  \/ UpdateAfterFlush
  \/ FinalInsertReturns
  \/ UpdateAfterFinal
  \/ Finish
  \/ MonitorNotify
  \/ MonitorExit
  \/ EofPrint
  \/ Signal
  \/ Rerun

\* Runs over the same input, one after the other.
Spec == Init /\ [][Next]_vars

\* The steps of one run.
NextRun ==
  \/ LoadConfig
  \/ SpawnMonitor
  \/ ConnectAndOpen
  \/ ReadProgress
  \/ NotifyInPipeline
  \/ ReadHeader
  \/ ReadRecord
  \/ FlushReturns
  \/ UpdateAfterFlush
  \/ FinalInsertReturns
  \/ UpdateAfterFinal
  \/ Finish
  \/ MonitorNotify
  \/ MonitorExit
  \/ EofPrint
  \/ Signal

\* A single run from any progress file.
SpecRun == InitRun /\ [][NextRun]_vars

\* One run of a program of the other source file: it has no statement that
\* reads the header, and it skips the rows whose record[4] is not "Bangladesh".
InitFiltered ==
  /\ variant = "filtered"
  /\ hdr \in [key : {HeaderKey}, pass : BOOLEAN]
  /\ csv \in FilesOf(FilteredRows, MaxFilteredRows)
  /\ progressFile \in
       {NoFile} \cup {FileWith(k) : k \in Keys \cup {StaleKey, HeaderKey}}
  /\ collection = <<>>
  /\ Started

NextFiltered ==
  \/ LoadConfig
  \/ SpawnMonitor
  \/ ConnectAndOpen
  \/ ReadProgress
  \/ NotifyInPipeline
  \/ ReadRecord
  \/ FlushReturns
  \/ UpdateAfterFlush
  \/ FinalInsertReturns
  \/ UpdateAfterFinal
  \/ Finish
  \/ MonitorNotify
  \/ MonitorExit
  \/ EofPrint
  \/ Signal

SpecFiltered == InitFiltered /\ [][NextFiltered]_vars

(* ---------------- specifications of the pure functions ---------------- *)
\* The pipeline is not running.
Parked ==
  /\ variant = "main" /\ hdr = [key |-> HeaderKey, pass |-> TRUE]
  /\ header = FALSE /\ csv = <<>> /\ uniqueIndex = FALSE
  /\ progressFile = NoFile /\ collection = <<>>
  /\ run = 1 /\ pc = "exited" /\ mon = "none" /\ monChan = 0 /\ sigChan = -1
  /\ eof = "none" /\ idx = -1 /\ progress = 0 /\ lastProcessedID = <<>> /\ startProcessing = FALSE /\ batch = <<>>
  /\ exitCode = 0 /\ cause = "none" /\ log = {}
  /\ insertFaults = 0 /\ writeFaults = 0 /\ signals = 0
  /\ calls = <<>> /\ hist = FreshHist

InitPath == Parked /\ ParseIdle /\ PathIdle

NextPath ==
  \/ StartProcess
  \/ SetProgressPath
  \/ ReadAtPath
  \/ WriteAtPath

\* Processes started one after the other, each on some input file.
SpecPath == InitPath /\ [][NextPath]_vars

InitParse ==
  /\ Parked /\ PathIdle
  /\ list \in Lists
  /\ column = ListColumn(list)
  /\ types = [done |-> FALSE, val |-> <<>>]

NextParse == ParseTypes

\* parseArrayFromColumn applied to every list column.
SpecParse == InitParse /\ [][NextParse]_vars

(* ======================= properties ======================= *)
RECURSIVE Flatten(_)
Flatten(bs) == IF bs = <<>> THEN <<>> ELSE Head(bs) \o Flatten(Tail(bs))

Ceil(n, d) == (n + d - 1) \div d

\* The entities of the data rows after row k, in file order.
RowsAfter(k) == [i \in 1..(Len(csv) - k) |-> Place(k + i)]

Exited(why) == pc = "exited" /\ cause = why

Range(f) == {f[i] : i \in DOMAIN f}

\* The entities this run has appended to the batch or bulk-inserted, in order
\* (the final bulk insert leaves its entities in the batch).
Taken ==
  Flatten(calls) \o
    (IF calls # <<>> /\ calls[Len(calls)] = batch THEN <<>> ELSE batch)

\* The natural keys of the data rows are pairwise different.
UniqueKeys ==
  \A i, j \in 1..Len(csv) :
    (i # j /\ ~csv[i].bad /\ ~csv[j].bad) => csv[i].key # csv[j].key

\* A key that is not empty and has no leading or trailing white space.
CleanKey(k) == k # <<>> /\ TrimSpace(k) = k
CleanKeys == \A i \in 1..Len(csv) : csv[i].bad \/ CleanKey(csv[i].key)

\* The run has read the progress file.
Resumed == hist.loaded

\* This run's bulk inserts are full batches followed by at most one smaller one.
FullBatches(n) ==
  /\ Len(calls) = Ceil(n, batchSize)
  /\ \A j \in 1..Len(calls) :
       Len(calls[j]) = IF j < Len(calls) THEN batchSize
                       ELSE n - (j - 1) * batchSize

\* C1: a run that finds no progress file and returns normally has bulk-inserted
\* every data row exactly once, in file order, in ceil(N/batchSize) calls, all
\* of batchSize entities but possibly the last; it exits 0, and the progress
\* file holds the last row's key when the last progress write succeeded.
\* (With 3 rows and batchSize 2: two calls, of 2 and of 1.)
C1_FullRun ==
  (Exited("done") /\ ~hist.start.exists) =>
     /\ Flatten(calls) = RowsAfter(0)
     /\ FullBatches(Len(csv))
     /\ (run = 1 => collection = RowsAfter(0))
     /\ exitCode = 0
     /\ "success" \in log
     /\ (Len(csv) > 0 /\ hist.lastWrite = "ok"
           => progressFile = FileWith(csv[Len(csv)].key))

C1_Witness ==
  /\ Exited("done") /\ ~hist.start.exists /\ run = 1
  /\ Len(csv) = 3 /\ batchSize = 2 /\ UniqueKeys
  /\ Len(calls) = 2 /\ Len(calls[1]) = 2 /\ Len(calls[2]) = 1
  /\ progressFile = FileWith(csv[3].key)
  /\ exitCode = 0

\* The run started with a progress file holding the key of data row K.
StartedAt(K) ==
  /\ hist.start.exists
  /\ ~csv[K].bad
  /\ hist.start.data = csv[K].key
  /\ UniqueKeys

\* C2: a run that starts with the progress file holding the key of data row K
\* (keys unique) takes no row up to K into a batch, and when it returns
\* normally it has bulk-inserted exactly the rows K+1..N.
C2_ResumeAfterCheckpoint ==
  \A K \in 1..Len(csv) :
    (StartedAt(K) /\ Resumed) =>
       /\ \A i \in 1..Len(Taken) : Taken[i].row > K
       /\ (Exited("done") => Flatten(calls) = RowsAfter(K))

\* The statement of C2 for a checkpoint key that TrimSpace leaves alone.
ResumeAfterCleanCheckpoint ==
  \A K \in 1..Len(csv) :
    (StartedAt(K) /\ Resumed /\ CleanKey(csv[K].key)) =>
       /\ \A i \in 1..Len(Taken) : Taken[i].row > K
       /\ (Exited("done") => Flatten(calls) = RowsAfter(K))

ResumeAfterCleanCheckpointWitness ==
  \E K \in 1..Len(csv) :
    /\ StartedAt(K) /\ CleanKey(csv[K].key) /\ Exited("done")
    /\ K < Len(csv) /\ calls # <<>>

\* The key of the last entity of the last batch inserted in this run.
LastCommittedKey == calls[Len(calls)][Len(calls[Len(calls)])].PlaceID

\* C3: when a bulk insert fails the run ends with a fatal error and the
\* progress file still holds the key of the last entity of the batch before
\* (it is as the run found it when the failed batch was the run's first);
\* a next run that returns normally has bulk-inserted every entity of the
\* failed batch.  (Stated for runs whose progress-file writes succeeded.)
C3_FailedInsertKeepsCheckpoint ==
  /\ Exited("insert") =>
       /\ exitCode = FatalExitCode /\ "fatal" \in log
       /\ ~hist.writeFailed =>
            progressFile = IF calls = <<>> THEN hist.start
                           ELSE FileWith(LastCommittedKey)
  /\ (run > 1 /\ hist.prevKind # "none" /\ Exited("done")) =>
       \A i \in 1..Len(hist.prevFailed) : hist.prevFailed[i] \in Range(Flatten(calls))

\* The statement of C3 for inputs whose keys TrimSpace leaves alone.
FailedInsertCleanKeys == CleanKeys => C3_FailedInsertKeepsCheckpoint

\* C4: when the first run found no progress file and some run has returned
\* normally, every data row is in the collection; and the entities one run
\* takes are in file order.
C4_AtLeastOnce ==
  /\ (hist.fresh /\ hist.completed) =>
       \A i \in 1..Len(csv) : Place(i) \in Range(collection)
  /\ \A i, j \in 1..Len(Taken) : i < j => Taken[i].row < Taken[j].row

\* The statement of C4 for inputs whose keys TrimSpace leaves alone.
AtLeastOnceCleanKeys == CleanKeys => C4_AtLeastOnce

AtLeastOnceCleanKeysWitness ==
  /\ CleanKeys /\ hist.fresh /\ hist.completed /\ run > 1
  /\ hist.prevKind = "fault" /\ Len(csv) = MaxRows

\* The progress file the run found names no row of the input.
Unmatched ==
  /\ hist.start.exists
  /\ TrimSpace(hist.start.data) # <<>>
  /\ \A i \in 1..Len(csv) :
       csv[i].key \notin {hist.start.data, TrimSpace(hist.start.data)}

\* C5: a run that finds a progress file naming no row of the input and returns
\* normally has made no bulk insert, has printed a warning and exits 0.
C5_UnmatchedCheckpointWarns ==
  (Exited("done") /\ Unmatched) =>
     /\ calls = <<>>
     /\ "warning" \in log
     /\ exitCode = 0

\* C6: after a run that a failing bulk insert aborted, a run in which nothing
\* fails from outside (the store answers, no signal, every file is readable)
\* returns normally.
C6_RetryCompletes ==
  (/\ run > 1 /\ hist.prevKind = "fault" /\ UniqueKeys
   /\ pc = "exited"
   /\ cause \notin {"config", "open", "readProgress", "header", "read",
                    "interrupt", "killed"}
   /\ hist.failKind # "fault")
  => cause = "done"

\* The row the reader is about to read cannot be read.
NextRowBad == pc = "read" /\ idx < Len(csv) /\ csv[idx + 1].bad

\* A step of the main goroutine out of the reading position.
MainStepFromRead ==
  /\ pc = "read"
  /\ idx' # idx \/ (pc' # "read" /\ cause' \notin {"interrupt", "killed"})

\* The progress file names only what this run found or has committed: it is
\* the key of the last entity of the last batch inserted when the write after
\* that batch succeeded, and else an older value or the emptied file.
CheckpointOfCommitted ==
  IF calls = <<>> THEN progressFile = hist.start
  ELSE /\ hist.lastWrite = "ok" => progressFile = FileWith(LastCommittedKey)
       /\ progressFile \in
            {hist.start, FileWith(<<>>)} \cup
            {FileWith(calls[j][Len(calls[j])].PlaceID) : j \in 1..Len(calls)}

\* C7: when the next row cannot be read, the step of the main goroutine ends
\* the run with a fatal error and a non-zero exit status; it inserts nothing
\* (the buffered entities stay uncommitted), reads no further row and leaves
\* the progress file as it is, naming the last batch committed.
C7_ReadErrorAborts ==
  [][(NextRowBad /\ MainStepFromRead) =>
       /\ pc' = "exited" /\ cause' = "read"
       /\ exitCode' = FatalExitCode /\ exitCode' # 0
       /\ "fatal" \in log'
       /\ UNCHANGED <<collection, calls, batch, idx, progressFile>>
       /\ \A i \in 1..Len(batch) : batch[i] \notin Range(Flatten(calls'))
       /\ CheckpointOfCommitted']_vars

C7_Witness ==
  /\ Exited("read") /\ exitCode = 1 /\ ~hist.writeFailed
  /\ batch # <<>> /\ calls # <<>>
  /\ progressFile = FileWith(LastCommittedKey)
  /\ \A i \in 1..Len(batch) : batch[i] \notin Range(collection)

\* A progress-file write fails in this step.
WriteFails == writeFaults' = writeFaults + 1

\* C8: a failed progress-file write is only logged: the step does not end the
\* run and leaves the file as it was or emptied (an older checkpoint); the run
\* goes on to bulk-insert every following row, and a later write that
\* succeeds leaves the file holding the key it wrote.
C8_WriteFailureOnlyLogged ==
  /\ [][WriteFails =>
          /\ pc' \in {"read", "finish"} /\ exitCode' = -1 /\ cause' = "none"
          /\ "progressError" \in log'
          /\ progressFile' \in {progressFile, FileWith(<<>>)}
          /\ UNCHANGED <<collection, calls, batch, idx>>]_vars
  /\ []((Exited("done") /\ hist.writeFailed) =>
          /\ exitCode = 0
          /\ calls # <<>>
          /\ Flatten(calls) = RowsAfter(calls[1][1].row - 1)
          /\ CheckpointOfCommitted)

C8_Witness ==
  /\ Exited("done") /\ hist.writeFailed /\ hist.lastWrite = "ok"
  /\ Len(calls) = 2
  /\ "progressError" \in log
  /\ progressFile = FileWith(LastCommittedKey)

\* C9: a signal that arrives while processCSV runs is not lost: as long as
\* the process lives it waits in the interrupt goroutine's channel, and the
\* exit that goroutine makes is non-zero.
C9_SignalReachesMonitor ==
  /\ (hist.signalled /\ pc # "exited") => monChan > 0
  /\ Exited("interrupt") => exitCode # 0

\* The statement of C9 from the moment the interrupt goroutine has registered.
SignalReachesRegisteredMonitor ==
  [][(signals' = signals + 1 /\ mon = "waiting") => monChan' > 0]_vars

\* C10: the exit status tells the three outcomes apart: 0 for a normal end,
\* non-zero for a fatal error, and for an interrupt a non-zero status other
\* than the one of a fatal error.
C10_ExitCodesDistinct ==
  pc = "exited" =>
    /\ cause = "done" => exitCode = 0
    /\ cause \in {"config", "open", "readProgress", "header", "read", "insert"}
         => exitCode # 0
    /\ cause = "interrupt" => exitCode \notin {0, FatalExitCode}

\* C11: two different input files never have the same progress-file path: a
\* process finds at its path only a file written by a process on the same
\* input, and no path is written by processes on different inputs.
C11_DistinctInputsDistinctPaths ==
  /\ got.exists => got.by = {csvFile}
  /\ \A p \in Paths : Cardinality(disk[p].by) <= 1

\* The path is a function of the input name alone: the same input always
\* finds the file it wrote.
SameInputSamePath ==
  [][(step = "read" /\ step' = "write" /\ csvFile \in disk[progressPath].by)
       => got'.exists]_vars

\* C12: the header record is discarded before the loop: no run compares its
\* key with the checkpoint, maps it to an entity, takes it into a batch or
\* commits it.
C12_HeaderDiscarded ==
  /\ ~hist.hdrCompared
  /\ Place(0) \notin Range(batch) \cup Range(Flatten(calls)) \cup Range(collection)

\* C13: a list of k >= 0 items written as ['a', 'b', 'c'] parses to exactly
\* those k items in order, quotes and spaces stripped; [] parses to the
\* sequence of length 0.
C13_ParseList ==
  types.done =>
    /\ Len(types.val) = Len(list)
    /\ types.val = list

\* The statement of C13 for the lists of one item.
ParseListOfOne == (types.done /\ Len(list) = 1) => types.val = list

\* A step of the main goroutine out of a position where it writes the
\* progress file.
WriteStep ==
  /\ pc \in {"update", "finalUpdate"}
  /\ pc' \notin {"update", "finalUpdate"}
  /\ cause' \notin {"interrupt", "killed"}

\* The keys of the last entities of the batches this run has committed.
CommittedKeys == {calls[j][Len(calls[j])].PlaceID : j \in 1..Len(calls)}

\* C14: in every state of a run that found no progress file, the progress
\* file is absent (or empty) or holds the key of the last entity of the most
\* recent batch committed; and the file changes only in a write step.
C14_CheckpointIsLastCommitted ==
  /\ []((~hist.start.exists /\ progressFile.exists /\ progressFile.data # <<>>) =>
          (calls # <<>> /\ progressFile = FileWith(LastCommittedKey)))
  /\ [][(progressFile' # progressFile) => (WriteStep /\ calls # <<>>)]_vars

\* C14 as amended: the progress file is as the run found it, or empty, or
\* holds the key of the last entity of some batch the run has committed; it
\* changes only in a write step, which comes right after a bulk insert that
\* succeeded, and a write that succeeds leaves the key of the last entity of
\* that batch, the most recent one committed.
CheckpointOfSomeCommit ==
  /\ [](progressFile \in
          {hist.start, FileWith(<<>>)} \cup {FileWith(k) : k \in CommittedKeys})
  /\ [][(progressFile' # progressFile) =>
          /\ WriteStep /\ calls # <<>> /\ calls' = calls
          /\ progressFile' = IF WriteFails THEN FileWith(<<>>)
                             ELSE FileWith(LastCommittedKey)]_vars
  /\ [][(WriteStep /\ ~WriteFails) =>
          (calls # <<>> /\ progressFile' = FileWith(LastCommittedKey))]_vars

CheckpointOfSomeCommitWitness ==
  /\ pc = "read" /\ Len(calls) = 2 /\ hist.lastWrite = "ok" /\ ~hist.writeFailed
  /\ hist.start.exists
  /\ calls[1][1].PlaceID # LastCommittedKey
  /\ calls[1][Len(calls[1])].PlaceID # LastCommittedKey
  /\ progressFile = FileWith(LastCommittedKey)

\* C15: the batch never holds more than batchSize entities; every bulk insert
\* gets between 1 and batchSize entities; the batch is empty right after a
\* threshold insert; only the end-of-file batch of a run is smaller than
\* batchSize; and the entities taken are consecutive rows in file order.
C15_BatchBounded ==
  /\ Len(batch) <= batchSize
  /\ pc = "inserting" => Len(batch) = batchSize
  /\ pc = "finalInserting" => Len(batch) \in 1..(batchSize - 1)
  /\ pc = "update" => batch = <<>>
  /\ \A j \in 1..Len(calls) :
       /\ Len(calls[j]) \in 1..batchSize
       /\ j < Len(calls) => Len(calls[j]) = batchSize
       /\ Len(calls[j]) < batchSize => pc \in {"finalUpdate", "finish", "exited"}
  /\ \A i \in 1..(Len(Taken) - 1) : Taken[i + 1].row = Taken[i].row + 1

C15_Witness ==
  /\ Exited("done") /\ hist.start.exists
  /\ Len(calls) = 2 /\ Len(calls[1]) = batchSize /\ Len(calls[2]) = 1
  /\ calls[1][1].row = 2

\* The loop reads a record that has passed the resume filter and fails the
\* row predicate.
ReadsExcluded ==
  /\ pc = "read" /\ ~AtEOF /\ idx' = idx + 1
  /\ startProcessing /\ ~Record(idx + 1).bad /\ ~Included(idx + 1)

\* No entity taken comes from a row that fails the predicate, and the
\* entities taken are in file order.
OnlyIncludedTaken ==
  /\ \A i \in 1..Len(Taken) : Included(Taken[i].row)
  /\ \A i, j \in 1..Len(Taken) : i < j => Taken[i].row < Taken[j].row

\* A row that fails the predicate is counted and nothing else: no append, no
\* bulk insert, no progress-file write.
ExcludedOnlyCounted ==
  ReadsExcluded =>
    /\ progress' = progress + 1
    /\ pc' = "read"
    /\ UNCHANGED <<batch, calls, collection, progressFile>>

\* The progress file is only ever given the key of a committed entity whose
\* row passes the predicate.
WritesIncludedKey ==
  (progressFile' # progressFile /\ progressFile'.data # <<>>) =>
    \E i \in 1..Len(Flatten(calls)) :
      /\ Flatten(calls)[i].PlaceID = progressFile'.data
      /\ Included(Flatten(calls)[i].row)

\* A run resumed at row K, a row that passes the predicate, that returns
\* normally has committed every row after K that passes the predicate.
ResumedCommitsIncluded(K) ==
  (StartedAt(K) /\ Included(K) /\ Exited("done")) =>
    \A i \in (K + 1)..Len(csv) :
      Included(i) => Place(i) \in Range(Flatten(calls))

\* C16: in the programs with a row predicate, a row that fails it is counted
\* but never appended, committed, flushed or written as the checkpoint; rows
\* that pass are batched in file order; and a resumed run commits every
\* passing row after the checkpointed row.
C16_FilteredRowsSkipped ==
  /\ []OnlyIncludedTaken
  /\ [][ExcludedOnlyCounted]_vars
  /\ [][WritesIncludedKey]_vars
  /\ [](\A K \in 1..Len(csv) : ResumedCommitsIncluded(K))

\* The statement of C16 for a checkpoint key that TrimSpace leaves alone.
FilteredRowsSkippedCleanCheckpoint ==
  /\ []OnlyIncludedTaken
  /\ [][ExcludedOnlyCounted]_vars
  /\ [][WritesIncludedKey]_vars
  /\ [](\A K \in 1..Len(csv) : CleanKey(csv[K].key) => ResumedCommitsIncluded(K))

FilteredRowsSkippedWitness ==
  /\ variant = "filtered" /\ Exited("done") /\ Len(csv) = 3
  /\ StartedAt(1) /\ CleanKey(csv[1].key)
  /\ ~csv[2].pass /\ csv[3].pass
  /\ Flatten(calls) = <<Place(3)>>
  /\ progress = 2

\* A step of the interrupt goroutine or of the EOF message goroutine.
GoroutineStep ==
  \/ mon = "created" /\ mon' = "waiting"
  \/ mon = "waiting" /\ cause' = "interrupt" /\ cause # "interrupt"
  \/ eof = "sleeping" /\ eof' = "printed"

\* A step of the main goroutine inside one process.
MainStep == (pc' # pc \/ idx' # idx) /\ cause' \notin {"interrupt", "killed"} /\ run' = run

\* C17: in every interleaving of the three goroutines, a step of the
\* interrupt goroutine or of the EOF message goroutine leaves the batch, the
\* resume flag and the progress file alone, and every step of a process that
\* changes one of them is a step of the main goroutine.
C17_SingleThreadedState ==
  /\ [][GoroutineStep => UNCHANGED <<batch, startProcessing, lastProcessedID, progressFile>>]_vars
  /\ [][(run' = run /\ <<batch, startProcessing, progressFile>>' #
                        <<batch, startProcessing, progressFile>>) => MainStep]_vars

C17_Witness ==
  /\ Exited("interrupt") /\ "eof" \in log
  /\ batch # <<>> /\ startProcessing /\ hist.start.exists
  /\ calls # <<>> /\ progressFile = FileWith(LastCommittedKey)

\* The file position of the row the progress file names, 0 when it names none.
RowOf(f) ==
  LET at == {i \in 1..Len(csv) : ~csv[i].bad /\ f.exists /\ csv[i].key = f.data}
  IN IF at = {} THEN 0 ELSE CHOOSE i \in at : \A j \in at : i <= j

\* C18: over the runs on an input with unique keys, every progress-file
\* write names a row strictly later in the file than the row the file named
\* before.  (Stated for behaviours in which no progress-file write fails.)
C18_CheckpointNeverBack ==
  [][(UniqueKeys /\ writeFaults' = 0 /\ progressFile' # progressFile)
       => RowOf(progressFile') > RowOf(progressFile)]_vars

\* The statement of C18 for runs that found no progress file or one holding
\* a key that TrimSpace leaves alone.
CheckpointNeverBackCleanStart ==
  [][(/\ UniqueKeys /\ writeFaults' = 0 /\ progressFile' # progressFile
      /\ hist.start.exists => CleanKey(hist.start.data))
       => RowOf(progressFile') > RowOf(progressFile)]_vars

CheckpointNeverBackCleanStartWitness ==
  /\ UniqueKeys /\ writeFaults = 0 /\ run > 1
  /\ hist.start.exists /\ CleanKey(hist.start.data) /\ RowOf(hist.start) > 0
  /\ RowOf(progressFile) > RowOf(hist.start)

\* The run follows a run that returned normally, on an input with unique
\* keys, and no progress-file write has failed.
AfterCompletedRun ==
  run > 1 /\ hist.prevCause = "done" /\ UniqueKeys /\ writeFaults = 0

\* The run makes no bulk insert, leaves the progress file as it found it, and
\* no row, batch or insert ends it; when it returns, it exits 0.
NoOpRun ==
  /\ calls = <<>> /\ batch = <<>>
  /\ pc \notin {"inserting", "finalInserting", "update", "finalUpdate"}
  /\ progressFile = hist.start
  /\ pc = "exited" => cause \notin {"insert", "read", "header"}
  /\ Exited("done") => exitCode = 0

\* C19: a run after a run that completed normally, on an input with unique
\* keys and with every checkpoint write succeeding, is a no-op.
C19_RerunIsNoOp == AfterCompletedRun => NoOpRun

\* The statement of C19 when the completed run left a key that TrimSpace
\* leaves alone, or no progress file.
RerunIsNoOpCleanCheckpoint ==
  (AfterCompletedRun /\ (hist.start.exists => CleanKey(hist.start.data))) => NoOpRun

RerunIsNoOpCleanCheckpointWitness ==
  /\ AfterCompletedRun /\ Exited("done") /\ Len(csv) >= 3
  /\ hist.start = FileWith(csv[Len(csv)].key) /\ CleanKey(hist.start.data)
  /\ Len(collection) = Len(csv)

\* The first data row whose key is k, 0 when there is none.
FirstRowWith(k) == RowOf(FileWith(k))

\* The run has read back the key k that updateLastProcessedPlaceID wrote:
\* getLastProcessedPlaceID returned k itself, and the row with that key, once
\* read, has been matched by the resume filter and not taken.
ReadBack(k) ==
  /\ lastProcessedID = k
  /\ idx >= FirstRowWith(k) => startProcessing
  /\ \A i \in 1..Len(Taken) : Taken[i].row # FirstRowWith(k)

\* C20: for every key k of a data row, empty or with white space around it
\* or not, the key written to the progress file is the key the next run
\* reads back, so that the resume filter matches the row with that key.
C20_CheckpointRoundTrip ==
  (Resumed /\ hist.start.exists /\ FirstRowWith(hist.start.data) > 0)
    => ReadBack(hist.start.data)

\* The statement of C20 for the keys that TrimSpace leaves alone.
RoundTripOfCleanKey ==
  (/\ Resumed /\ hist.start.exists /\ FirstRowWith(hist.start.data) > 0
   /\ CleanKey(hist.start.data))
    => ReadBack(hist.start.data)

RoundTripOfCleanKeyWitness ==
  /\ run > 1 /\ hist.start.exists /\ CleanKey(hist.start.data)
  /\ FirstRowWith(hist.start.data) = 2 /\ Len(csv) = 4
  /\ Exited("done") /\ Flatten(calls) = RowsAfter(2)

====
